---- MODULE Spec2Model ----
(***************************************************************************)
(* DictDB: the Transactional Store (dictdb/StorageDict.py, SharedStorage)  *)
(* and the Command Queue Executor (dictdb/SqliteThreadWork.py).            *)
(*                                                                         *)
(* One store instance at a time works on one namespace table of one        *)
(* database file through its own sqlite3 connection, opened with           *)
(* isolation_level='EXCLUSIVE': the connection opens a transaction with    *)
(* BEGIN EXCLUSIVE, explicitly (begin) or implicitly before an INSERT or   *)
(* DELETE, and what it writes is seen by other connections only once it    *)
(* commits.  `disk' is the committed table, `view' the table as the        *)
(* store's connection sees it (its uncommitted writes included).  A second *)
(* connection to the same file (another process reading the database) is   *)
(* modelled by the lock it may hold.                                       *)
(*                                                                         *)
(* The clock (int(time.time())) is taken to be non-decreasing.             *)
(*                                                                         *)
(* The executor is a component of its own, with a connection of its own:   *)
(* Spec is the store with no executor, QSpec the executor with no store    *)
(* (QFair adds the fair scheduling of its threads), PollSpec the           *)
(* executor's poll loop followed through all of its sleeps.                *)
(***************************************************************************)
EXTENDS Integers, Sequences, FiniteSets, TLC

\* ------------------------------------------------------------------ bounds

\* The clock runs from 0 to MaxTime seconds.
MaxTime == 2

\* The keys of the namespace, in the order of the primary-key index.
KeyOrder == <<"a", "b">>
Keys == {KeyOrder[i] : i \in 1..Len(KeyOrder)}

\* Python values a caller passes, named by their repr: a list, a tuple and a
\* set (which json.dumps rejects).
PyValues == {"[1, 2]", "(1, 2)", "{1, 2}"}

\* The `expires' arguments a store is constructed with (seconds; 0 disables).
ExpiresChoices == {0, 1}

\* "no value": Python's None, as a default and as an absent result.
None == "None"

\* The defaults a caller passes to pop.
Defaults == {None, "dflt"}

VARIABLES
    now,             \* int(time.time())
    dbFile,          \* the database file exists
    tableExists,     \* the namespace table exists in the (committed) database
    disk,            \* the committed rows of the table, in rowid order
    view,            \* the rows as the store's connection sees them
    in_transaction,  \* conn.in_transaction
    phase,           \* "none": no instance, "open", "closed": conn closed
    read_only,       \* self.read_only
    active_context,  \* self.active_context
    inScope,         \* the caller is inside a `with store:' block
    otherLock,       \* another connection holds a lock on the database
    pc,              \* where a pop in progress stands
    last,            \* the call made by the last step, and how it ended
    expect           \* per key, the value of the last returned set(k, v)
                     \* that no later call on k has followed

\* The Command Queue Executor (dictdb/SqliteThreadWork.py)
VARIABLES
    max_queue_size,  \* self.max_queue_size, the capacity of self.queue
    queue,           \* self.queue
    results,         \* self.results: token -> result
    exit_set,        \* self.exit_set
    thread_running,  \* self.thread_running
    execute_count,   \* run's local execute_count
    conn,            \* self.conn: open, committed rows, uncommitted rows
    wpc,             \* where the worker stands in run
    wcmd,            \* the command the worker took off the queue
    prod,            \* per producer: where its execute call stands
    ret,             \* what the last execute call to end returned or raised
    closer,          \* where the close call stands
    issued,          \* the number of tokens generated so far
    enqueued,        \* the producers' commands, in the order of their puts
    executed,        \* the commands run_query was called with, in order
    uncommitted,     \* commands executed since the connection's last commit
    atClose,         \* the tokens in the queue when close was called
    sleepBound       \* the longest sleep of a poll loop that is followed

svars == <<now, dbFile, tableExists, disk, view, in_transaction, phase,
           read_only, active_context, inScope, otherLock, pc, last,
           expect>>

qvars == <<max_queue_size, queue, results, exit_set, thread_running,
           execute_count, conn, wpc, wcmd, prod, ret, closer, issued,
           enqueued, executed, uncommitted, atClose, sleepBound>>

vars == <<svars, qvars>>

\* ------------------------------------------------------------ entry codec

\* json.dumps({'data': value}) raises TypeError for a value JSON cannot hold.
Serializable(value) == value # "{1, 2}"

\* json.dumps({'data': value}): a tuple is written as a JSON array.
json_dumps(value) ==
    CASE value = "[1, 2]" -> "{\"data\": [1, 2]}"
      [] value = "(1, 2)" -> "{\"data\": [1, 2]}"
      [] OTHER            -> "TypeError"

\* json.loads(text).get('data'): a JSON array is read as a list.
json_loads(text) ==
    CASE text = "{\"data\": [1, 2]}" -> "[1, 2]"
      [] OTHER                       -> None

\* ------------------------------------------------------------------ table

Row(key, value, inserted, updated) ==
    [key |-> key, value |-> value, inserted |-> inserted, updated |-> updated]

Range(s) == {s[i] : i \in 1..Len(s)}

HasKey(rows, key) == \E i \in 1..Len(rows) : rows[i].key = key

RowOf(rows, key) == rows[CHOOSE i \in 1..Len(rows) : rows[i].key = key]

Without(rows, key) == SelectSeq(rows, LAMBDA r : r.key # key)

KeysOf(rows) == {r.key : r \in Range(rows)}

\* DELETE FROM tb WHERE updated + ? < ?  (the expiry sweep's condition)
ExpiredAtOrBefore(row, ttl, t) == row.updated + ttl <= t
Expired(row, ttl, t) == row.updated + ttl < t

Sweep(rows, ttl, t) == SelectSeq(rows, LAMBDA r : ~Expired(r, ttl, t))

\* INSERT OR REPLACE ... COALESCE((SELECT inserted ... WHERE key = :key), :now):
\* the row of the key, if any, is deleted and the new row gets a new rowid.
AppendRow(rows, key, text, t) == Append(rows, Row(key, text, t, t))
ReplaceStamped(rows, key, text, t) ==
    Append(Without(rows, key), Row(key, text, t, t))
Upsert(rows, key, text, t) ==
    Append(Without(rows, key),
           Row(key, text,
               IF HasKey(rows, key) THEN RowOf(rows, key).inserted ELSE t,
               t))

\* ------------------------------------------------------------- connection

\* The store's connection: whether it is inside a transaction, the rows it
\* sees and the committed rows.
Conn == [in_transaction |-> in_transaction, view |-> view, disk |-> disk]

Install(c) ==
    /\ in_transaction' = c.in_transaction
    /\ view' = c.view
    /\ disk' = c.disk

\* BEGIN EXCLUSIVE, explicit or implied by an INSERT or DELETE outside a
\* transaction, fails (OperationalError: database is locked) while another
\* connection holds a lock.
Locked(c) == ~c.in_transaction /\ otherLock

BeginFails(c, active) == ~active /\ Locked(c)

begin(c, active) ==
    IF active THEN c
    ELSE IF ~c.in_transaction THEN [c EXCEPT !.in_transaction = TRUE]
    ELSE c

rollback(c, active) ==
    IF active THEN c
    ELSE IF c.in_transaction
         THEN [in_transaction |-> FALSE, view |-> c.disk, disk |-> c.disk]
    ELSE c

commit(c, active) ==
    IF active THEN c
    ELSE IF c.in_transaction
         THEN [in_transaction |-> FALSE, view |-> c.view, disk |-> c.view]
    ELSE c

\* ------------------------------------------------------------------ reads

count == Len(view)

\* SELECT key FROM tb: answered from the primary-key index, in key order.
keys == SelectSeq(KeyOrder, LAMBDA k : HasKey(view, k))

\* SELECT value FROM tb: the stored texts, in rowid order, as they are.
values == [i \in 1..Len(view) |-> view[i].value]

\* SELECT key, value FROM tb: in rowid order, the values decoded.
items == [i \in 1..Len(view) |-> <<view[i].key, json_loads(view[i].value)>>]

GetIn(rows, key, default) ==
    IF ~HasKey(rows, key)
    THEN IF default = None THEN "KeyError" ELSE default
    ELSE json_loads(RowOf(rows, key).value)

get(key, default) == GetIn(view, key, default)

age(key) ==
    IF ~HasKey(view, key) THEN <<"KeyError">>
    ELSE <<now - RowOf(view, key).inserted, now - RowOf(view, key).updated>>

\* ------------------------------------------------------------- operations

Call(op, res, rowcount) == [op |-> op, res |-> res, rowcount |-> rowcount]

Idle == [at |-> "idle", key |-> None, value |-> None]

NoExpect == [k \in Keys |-> None]

\* The mappings a caller passes to update: (key, value) pairs in the order
\* the dict yields them, the keys distinct.
Dics ==
    {<<>>}
    \cup {<<<<k, v>>>> : k \in Keys, v \in PyValues}
    \cup {d \in {<<<<k1, "[1, 2]">>, <<k2, v2>>>> :
                     k1 \in Keys, k2 \in Keys, v2 \in {"(1, 2)", "{1, 2}"}} :
              d[1][1] # d[2][1]}

DicKeys(dic) == {dic[i][1] : i \in 1..Len(dic)}

Usable == phase = "open" /\ pc.at = "idle"

ReadOnlyOff == FALSE
_check_read_only == read_only

\* One INSERT OR REPLACE of _set: the connection after it and how it ended.
_set(c, key, value) ==
    IF ~Serializable(value) THEN [c |-> c, err |-> "TypeError"]
    ELSE IF Locked(c) THEN [c |-> c, err |-> "OperationalError"]
    ELSE [c |-> [c EXCEPT !.in_transaction = TRUE,
                          !.view = Upsert(@, key, json_dumps(value), now)],
          err |-> "ok"]

RECURSIVE SetAll(_, _)
SetAll(c, dic) ==
    IF dic = <<>> THEN [c |-> c, err |-> "ok"]
    ELSE LET r == _set(c, dic[1][1], dic[1][2])
         IN  IF r.err # "ok" THEN r ELSE SetAll(r.c, Tail(dic))

__init__(ro, exp) ==
    /\ phase \in {"none", "closed"}
    /\ pc' = Idle /\ expect' = NoExpect
    /\ UNCHANGED <<now, otherLock, inScope>>
    /\ active_context' = FALSE
    /\ in_transaction' = FALSE
    /\ IF (ro /\ ~dbFile) \/ (ro /\ ~otherLock /\ ~tableExists)
       THEN /\ last' = Call("__init__", "WBStorageException", 0)
            /\ phase' = "none" /\ view' = disk
            /\ UNCHANGED <<dbFile, tableExists, disk, read_only>>
       ELSE IF otherLock
       THEN /\ last' = Call("__init__", "sqlite3.Error", 0)
            /\ phase' = "none" /\ view' = disk
            /\ UNCHANGED <<dbFile, tableExists, disk, read_only>>
       ELSE /\ last' = Call("__init__", "ok",
                            IF ~ro /\ exp > 0
                            THEN Len(disk) - Len(Sweep(disk, exp, now)) ELSE 0)
            /\ phase' = "open" /\ read_only' = ro
            /\ dbFile' = TRUE
            /\ tableExists' = (tableExists \/ ~ro)
            /\ disk' = IF ~ro /\ exp > 0 THEN Sweep(disk, exp, now) ELSE disk
            /\ view' = disk'

set(key, value) ==
    /\ Usable
    /\ UNCHANGED <<now, dbFile, tableExists, phase, read_only,
                   active_context, inScope, otherLock, pc>>
    /\ IF _check_read_only
       THEN /\ last' = Call("set", "ReadOnly", 0)
            /\ UNCHANGED <<disk, view, in_transaction, expect>>
       ELSE LET r == _set(Conn, key, value)
            IN  /\ last' = Call("set", r.err, 0)
                /\ IF r.err = "ok"
                   THEN /\ Install(commit(r.c, active_context))
                        /\ expect' = [expect EXCEPT ![key] = value]
                   ELSE /\ Install(r.c)
                        /\ UNCHANGED expect

\* DELETE FROM tb WHERE key = ?, then commit (delete's first three lines).
DeleteRow(c, key, active) ==
    commit([c EXCEPT !.in_transaction = TRUE, !.view = Without(@, key)],
           active)

delete(key, ignore_key_error) ==
    /\ Usable
    /\ UNCHANGED <<now, dbFile, tableExists, phase, read_only,
                   active_context, inScope, otherLock, pc>>
    /\ expect' = [expect EXCEPT ![key] = None]
    /\ IF _check_read_only
       THEN /\ last' = Call("delete", "ReadOnly", 0)
            /\ UNCHANGED <<disk, view, in_transaction>>
       ELSE IF Locked(Conn)
       THEN /\ last' = Call("delete",
                            "OperationalError", 0)
            /\ UNCHANGED <<disk, view, in_transaction>>
       ELSE /\ Install(DeleteRow(Conn, key, active_context))
            \* `ignore_error' is not a name of the method: evaluating it, which
            \* Python does only when no row was deleted, raises NameError.
            /\ last' = Call("delete",
                            IF ~HasKey(view, key) THEN "NameError" ELSE "ok",
                            IF HasKey(view, key) THEN 1 ELSE 0)

update(dic) ==
    /\ Usable
    /\ UNCHANGED <<now, dbFile, tableExists, phase, read_only,
                   active_context, inScope, otherLock, pc>>
    /\ expect' = [k \in Keys |-> IF k \in DicKeys(dic) THEN None ELSE expect[k]]
    /\ IF _check_read_only
       THEN /\ last' = Call("update", "ReadOnly", 0)
            /\ UNCHANGED <<disk, view, in_transaction>>
       ELSE LET r == SetAll(Conn, dic)
            IN  /\ last' = Call("update", r.err, 0)
                /\ IF r.err = "ok"
                   THEN Install(commit(r.c, active_context))
                   ELSE Install(r.c)

\* pop up to its get: begin, then the SELECT; a missing key ends the call.
pop(key, default) ==
    /\ Usable
    /\ UNCHANGED <<now, dbFile, tableExists, phase, read_only,
                   active_context, inScope, otherLock>>
    /\ expect' = [expect EXCEPT ![key] = None]
    /\ IF _check_read_only
       THEN /\ last' = Call("pop", "ReadOnly", 0)
            /\ UNCHANGED <<disk, view, in_transaction, pc>>
       ELSE IF BeginFails(Conn, active_context)
       THEN /\ last' = Call("pop", "OperationalError", 0)
            /\ UNCHANGED <<disk, view, in_transaction, pc>>
       ELSE LET c == begin(Conn, active_context)
            IN  IF ~HasKey(c.view, key)
                THEN /\ Install(rollback(c, active_context))
                     /\ last' = Call("pop",
                                     IF default = None THEN "KeyError" ELSE default, 0)
                     /\ UNCHANGED pc
                ELSE /\ Install(c)
                     /\ pc' = [at |-> "pop", key |-> key,
                               value |-> json_loads(RowOf(c.view, key).value)]
                     /\ last' = Call("pop", "running", 0)

\* The rest of pop: delete(key, ignore_key_error=True), commit, return value.
pop_delete ==
    /\ phase = "open" /\ pc.at = "pop"
    /\ UNCHANGED <<now, dbFile, tableExists, phase, read_only,
                   active_context, inScope, otherLock, expect>>
    /\ pc' = Idle
    /\ IF Locked(Conn)
       THEN /\ last' = Call("pop", "OperationalError", 0)
            /\ UNCHANGED <<disk, view, in_transaction>>
       ELSE /\ Install(commit(DeleteRow(Conn, pc.key, active_context),
                              active_context))
            /\ last' = Call("pop", pc.value, 1)

\* TRUNCATE TABLE is no statement of SQLite: preparing it fails.
clear ==
    /\ Usable
    /\ UNCHANGED <<now, dbFile, tableExists, phase, read_only,
                   active_context, inScope, otherLock, pc, disk, view,
                   in_transaction>>
    /\ expect' = NoExpect
    /\ last' = Call("clear",
                    IF _check_read_only THEN "ReadOnly" ELSE "OperationalError", 0)

__enter__ ==
    /\ Usable /\ ~inScope
    /\ UNCHANGED <<now, dbFile, tableExists, phase, read_only,
                   otherLock, pc, expect>>
    /\ inScope' = TRUE
    /\ IF BeginFails(Conn, active_context)
       THEN \* the bare except swallows the failure: active_context stays False
            /\ last' = Call("__enter__", "swallowed", 0)
            /\ UNCHANGED <<disk, view, in_transaction, active_context>>
       ELSE /\ Install(begin(Conn, active_context))
            /\ active_context' = TRUE
            /\ last' = Call("__enter__", "ok", 0)

\* exc: the block is left by an exception.
__exit__(exc) ==
    /\ Usable /\ inScope
    /\ UNCHANGED <<now, dbFile, tableExists, read_only, otherLock, pc>>
    /\ inScope' = FALSE
    /\ active_context' = FALSE
    /\ Install(IF exc THEN rollback(Conn, FALSE) ELSE commit(Conn, FALSE))
    /\ phase' = "closed"
    /\ expect' = NoExpect
    /\ last' = Call("__exit__", "ok", 0)

\* conn.close(): SQLite rolls an open transaction back.
close ==
    /\ Usable /\ ~inScope
    /\ UNCHANGED <<now, dbFile, tableExists, read_only, otherLock, pc,
                   inScope, active_context>>
    /\ Install([in_transaction |-> FALSE, view |-> disk, disk |-> disk])
    /\ phase' = "closed"
    /\ expect' = NoExpect
    /\ last' = Call("close", "ok", 0)

\* Another connection takes a lock on the database file, which it cannot
\* while the store's connection is inside its exclusive transaction.
OtherAcquire ==
    /\ dbFile /\ ~otherLock /\ ~in_transaction /\ pc.at = "idle"
    /\ otherLock' = TRUE
    /\ last' = Call("other", "ok", 0)
    /\ UNCHANGED <<now, dbFile, tableExists, disk, view, in_transaction, phase,
                   read_only, active_context, inScope, pc, expect>>

OtherRelease ==
    /\ otherLock /\ pc.at = "idle"
    /\ otherLock' = FALSE
    /\ last' = Call("other", "ok", 0)
    /\ UNCHANGED <<now, dbFile, tableExists, disk, view, in_transaction, phase,
                   read_only, active_context, inScope, pc, expect>>

\* The clock advances between the store's calls.
Tick ==
    /\ now < MaxTime
    /\ now' = now + 1
    /\ pc.at = "idle"
    /\ last' = Call("tick", "ok", 0)
    /\ UNCHANGED <<dbFile, tableExists, disk, view, in_transaction, phase,
                   read_only, active_context, inScope, otherLock,
                   pc, expect>>

\* ------------------------------------------------ Command Queue Executor
\*
\* dictdb/SqliteThreadWork.py.  The executor owns a connection of its own
\* and a worker thread (run) that takes commands off a bounded queue.Queue;
\* any number of producer threads call execute, and one thread calls close.
\* Every step below is one access to the state the threads share (the
\* queue, the results dict, exit_set, thread_running), so the steps of
\* different threads interleave as the threads do.

\* execute is called at most MaxCalls times in all.
MaxCalls == 2

\* The threads that call execute.
Producers == {"p1", "p2"}

\* The max_queue_size arguments an executor is constructed with.
QueueSizes == {1, 2}

\* A statement is a query if it starts with "select", else a mutation.
Statements == {"select", "insert"}

\* What executing a command's statement with its values does: it succeeds,
\* it raises an sqlite3.Error (a constraint, a missing table), or binding
\* a value raises another exception (OverflowError for an int beyond 64
\* bits, UnicodeEncodeError for a lone surrogate).
Outcomes == {"ok", "sqlite3.Error", "OverflowError"}

\* self.exit_token, and the tokens of the calls: 1, 2, ... (uuid4 values,
\* taken to be distinct).
exit_token == 0
NoToken == 0 - 1

\* query_results: delay = .001 and `if delay < 10', in milliseconds.
FirstDelay == 1
DelayLimit == 10000

\* A poll loop is followed through its sleeps of at most MaxSleep
\* milliseconds, or through every sleep (no delay exceeds AnySleep).
MaxSleep == 2
AnySleep == 2 * DelayLimit

Command(token, query, vals) ==
    [token |-> token, query |-> query, values |-> vals]

Sentinel == Command(exit_token, "", "")
NoCommand == Command(NoToken, "", "")

\* What a call returns or what the worker stores for a token: the fetched
\* rows, the error text, None, ["Exit Called"], or queue.Full raised.
Result(kind, rows) == [kind |-> kind, rows |-> rows]
Return(token, res) == [token |-> token, kind |-> res.kind, rows |-> res.rows]
NoReturn == Return(NoToken, Result("none", <<>>))

IdleProducer == [at |-> "idle", cmd |-> NoCommand, delay |-> 0]

\* queue.Queue.full() and .empty()
full == Len(queue) = max_queue_size
empty == queue = <<>>

\* The rows the executor's connection sees: an `insert' that succeeded is
\* the row of its token.
Table(c) == c.committed \o c.pending

\* conn.commit() and conn.close()
ConnCommit(c) == [c EXCEPT !.committed = c.committed \o c.pending,
                           !.pending = <<>>]
ConnClose(c) == [c EXCEPT !.open = FALSE, !.pending = <<>>]

\* The worker can still take commands off the queue.
WorkerConsuming == wpc \notin {"return", "stopped", "dead"}

\* execute, lines 139-146: the test of exit_set and the new token.
execute(p, query, vals) ==
    /\ prod[p].at = "idle"
    /\ exit_set \/ issued < MaxCalls
    /\ IF exit_set
          THEN /\ ret' = Return(NoToken, Result("Exit Called", <<>>))
               /\ UNCHANGED <<prod, issued>>
          ELSE /\ issued' = issued + 1
               /\ prod' = [prod EXCEPT ![p] =
                      [at |-> "put", cmd |-> Command(issued + 1, query, vals),
                       delay |-> 0]]
               /\ UNCHANGED ret
    /\ UNCHANGED <<queue, results, exit_set, thread_running, execute_count,
                   max_queue_size, conn, wpc, wcmd, closer, enqueued,
                   executed, uncommitted, atClose, sleepBound, svars>>

\* execute, lines 150-154: queue.put, non-blocking for a query (queue.Full
\* is raised at once on a full queue), blocking for a mutation.
execute_put(p) ==
    /\ prod[p].at = "put"
    /\ LET cmd == prod[p].cmd IN
       IF cmd.query = "select" /\ full
          THEN /\ prod' = [prod EXCEPT ![p] = IdleProducer]
               /\ ret' = Return(cmd.token, Result("Full", <<>>))
               /\ UNCHANGED <<queue, enqueued>>
          ELSE /\ ~full
               /\ queue' = Append(queue, cmd)
               /\ enqueued' = Append(enqueued, cmd)
               /\ IF cmd.query = "select"
                     THEN /\ prod' = [prod EXCEPT ![p].at = "poll",
                                                  ![p].delay = FirstDelay]
                          /\ UNCHANGED ret
                     ELSE /\ prod' = [prod EXCEPT ![p] = IdleProducer]
                          /\ ret' = Return(cmd.token, Result("None", <<>>))
    /\ UNCHANGED <<results, exit_set, thread_running, execute_count,
                   max_queue_size, conn, wpc, wcmd, closer, issued,
                   executed, uncommitted, atClose, sleepBound, svars>>

\* The blocking put of a mutation gives up after timeout=5 and raises
\* queue.Full.  Only the case that no timing can avoid is modelled: the
\* queue is full and the worker takes nothing off it any more.
execute_put_timeout(p) ==
    /\ prod[p].at = "put"
    /\ prod[p].cmd.query # "select"
    /\ full /\ ~WorkerConsuming
    /\ prod' = [prod EXCEPT ![p] = IdleProducer]
    /\ ret' = Return(prod[p].cmd.token, Result("Full", <<>>))
    /\ UNCHANGED <<queue, results, exit_set, thread_running, execute_count,
                   max_queue_size, conn, wpc, wcmd, closer, issued, enqueued,
                   executed, uncommitted, atClose, sleepBound, svars>>

\* del self.results[token]
keep_result(res, token) == res
del_result(res, token) == [t \in DOMAIN res \ {token} |-> res[t]]

\* query_results: one iteration of the poll loop.  A loop whose delay has
\* passed sleepBound goes on as before, but is followed no further: its
\* iterations change nothing but the delay.
query_results(p) ==
    /\ prod[p].at = "poll"
    /\ LET token == prod[p].cmd.token
           delay == prod[p].delay IN
       IF token \in DOMAIN results
          THEN /\ ret' = Return(token, results[token])
               /\ results' = del_result(results, token)
               /\ prod' = [prod EXCEPT ![p] = IdleProducer]
          ELSE /\ delay <= sleepBound
               /\ prod' = [prod EXCEPT ![p].delay =
                               IF delay < DelayLimit THEN delay + delay
                                                     ELSE delay]
               /\ UNCHANGED <<ret, results>>
    /\ UNCHANGED <<queue, exit_set, thread_running, execute_count,
                   max_queue_size, conn, wpc, wcmd, closer, issued, enqueued,
                   executed, uncommitted, atClose, sleepBound, svars>>

\* close, line 104
close_exit_set ==
    /\ closer = "idle"
    /\ exit_set' = TRUE
    /\ closer' = "put"
    /\ atClose' = {queue[i].token : i \in 1..Len(queue)}
    /\ UNCHANGED <<queue, results, thread_running, execute_count,
                   max_queue_size, conn, wpc, wcmd, prod, ret, issued,
                   enqueued, executed, uncommitted, sleepBound, svars>>

\* close, line 105: the blocking put of the sentinel.
close_put ==
    /\ closer = "put"
    /\ ~full
    /\ queue' = Append(queue, Sentinel)
    /\ closer' = "wait"
    /\ UNCHANGED <<results, exit_set, thread_running, execute_count,
                   max_queue_size, conn, wpc, wcmd, prod, ret, issued,
                   enqueued, executed, uncommitted, atClose, sleepBound, svars>>

\* The put of the sentinel gives up after timeout=5: close raises
\* queue.Full (modelled as for execute_put_timeout).
close_put_timeout ==
    /\ closer = "put"
    /\ full /\ ~WorkerConsuming
    /\ closer' = "Full"
    /\ UNCHANGED <<queue, results, exit_set, thread_running, execute_count,
                   max_queue_size, conn, wpc, wcmd, prod, ret, issued,
                   enqueued, executed, uncommitted, atClose, sleepBound, svars>>

\* A close that closes the connection itself and does not wait for the
\* worker.
close_wait_closing ==
    /\ closer = "wait"
    /\ conn' = ConnClose(conn)
    /\ closer' = "returned"
    /\ UNCHANGED <<queue, results, exit_set, thread_running, execute_count,
                   max_queue_size, wpc, wcmd, prod, ret, issued, enqueued,
                   executed, uncommitted, atClose, sleepBound, svars>>

\* close, lines 106-108: returns once thread_running is False.
close_wait ==
    /\ closer = "wait"
    /\ ~thread_running
    /\ closer' = "returned"
    /\ UNCHANGED <<queue, results, exit_set, thread_running, execute_count,
                   max_queue_size, conn, wpc, wcmd, prod, ret, issued,
                   enqueued, executed, uncommitted, atClose, sleepBound, svars>>

\* queue.Queue.get on a non-empty queue: the oldest item, and what is left.
get_last(q) == [item |-> q[Len(q)], rest |-> SubSeq(q, 1, Len(q) - 1)]
queue_get(q) == [item |-> Head(q), rest |-> Tail(q)]

\* run, lines 60-62: queue.get() blocks on an empty queue.
run_get ==
    /\ wpc = "get"
    /\ ~empty
    /\ wcmd' = queue_get(queue).item
    /\ queue' = queue_get(queue).rest
    /\ wpc' = IF queue_get(queue).item.token # exit_token THEN "run_query"
                                                          ELSE "exit"
    /\ UNCHANGED <<results, exit_set, thread_running, execute_count,
                   max_queue_size, conn, closer, prod, ret, issued,
                   enqueued, executed, uncommitted, atClose, sleepBound, svars>>

\* run, lines 64-65, and run_query.  Only an sqlite3.Error is caught: any
\* other exception leaves run, and the thread ends where it stands.
run_query ==
    /\ wpc = "run_query"
    /\ LET token == wcmd.token
           select == wcmd.query = "select"
           res == CASE wcmd.values = "OverflowError" -> Result("raised", <<>>)
                    [] select /\ wcmd.values = "ok" ->
                           Result("rows", Table(conn))
                    [] select -> Result("error", <<>>)
                    [] OTHER -> Result("None", <<>>) IN
       /\ executed' = Append(executed, [token |-> token, res |-> res])
       /\ IF wcmd.values = "OverflowError"
             THEN /\ wpc' = "dead"
                  /\ UNCHANGED <<results, conn, execute_count, uncommitted>>
             ELSE /\ results' = IF select THEN (token :> res) @@ results
                                          ELSE results
                  /\ conn' = IF ~select /\ wcmd.values = "ok"
                                THEN [conn EXCEPT !.pending = Append(@, token)]
                                ELSE conn
                  /\ execute_count' = execute_count + 1
                  /\ uncommitted' = uncommitted + 1
                  /\ wpc' = "commit"
    /\ UNCHANGED <<queue, exit_set, thread_running, max_queue_size, wcmd,
                   closer, prod, ret, issued, enqueued, atClose, sleepBound, svars>>

\* run, line 68: the test for a commit.
commit_on_empty_only == empty
commit_due == empty \/ execute_count = max_queue_size

\* run, lines 68-72: the batched commit.
run_commit ==
    /\ wpc = "commit"
    /\ IF commit_due
          THEN /\ conn' = ConnCommit(conn)
               /\ execute_count' = 0
               /\ uncommitted' = 0
          ELSE UNCHANGED <<conn, execute_count, uncommitted>>
    /\ wpc' = "exit"
    /\ UNCHANGED <<queue, results, exit_set, thread_running, max_queue_size,
                   wcmd, closer, prod, ret, issued, enqueued, executed,
                   atClose, sleepBound, svars>>

\* run, lines 75-77: leave only on exit_set and an empty queue.
run_exit ==
    /\ wpc = "exit"
    /\ IF exit_set /\ empty
          THEN /\ conn' = ConnClose(ConnCommit(conn))
               /\ uncommitted' = 0
               /\ wpc' = "return"
          ELSE /\ wpc' = "get"
               /\ UNCHANGED <<conn, uncommitted>>
    /\ wcmd' = NoCommand
    /\ UNCHANGED <<queue, results, exit_set, thread_running, execute_count,
                   max_queue_size, closer, prod, ret, issued, enqueued,
                   executed, atClose, sleepBound, svars>>

\* run, lines 78-79
run_return ==
    /\ wpc = "return"
    /\ thread_running' = FALSE
    /\ wpc' = "stopped"
    /\ UNCHANGED <<queue, results, exit_set, execute_count, max_queue_size,
                   conn, wcmd, closer, prod, ret, issued, enqueued, executed,
                   uncommitted, atClose, sleepBound, svars>>

\* No executor has been constructed.
NoExecutor ==
    /\ max_queue_size = 0
    /\ queue = <<>>
    /\ results = <<>>
    /\ exit_set = FALSE
    /\ thread_running = FALSE
    /\ execute_count = 0
    /\ conn = [open |-> FALSE, committed |-> <<>>, pending |-> <<>>]
    /\ wpc = "none"
    /\ wcmd = NoCommand
    /\ prod = [p \in Producers |-> IdleProducer]
    /\ ret = NoReturn
    /\ closer = "none"
    /\ issued = 0
    /\ enqueued = <<>>
    /\ executed = <<>>
    /\ uncommitted = 0
    /\ atClose = {}
    /\ sleepBound = MaxSleep

Init ==
    /\ now = 0
    /\ dbFile \in BOOLEAN
    /\ tableExists = FALSE
    /\ disk = <<>>
    /\ view = <<>>
    /\ in_transaction = FALSE
    /\ phase = "none"
    /\ read_only = FALSE
    /\ active_context = FALSE
    /\ inScope = FALSE
    /\ otherLock = FALSE
    /\ pc = Idle
    /\ last = Call("none", "ok", 0)
    /\ expect = NoExpect
    /\ NoExecutor

Next ==
    \/ \E ro \in BOOLEAN, exp \in ExpiresChoices : __init__(ro, exp) /\ UNCHANGED qvars
    \/ \E key \in Keys, value \in PyValues : set(key, value) /\ UNCHANGED qvars
    \/ \E key \in Keys, ignore_key_error \in BOOLEAN : delete(key, ignore_key_error) /\ UNCHANGED qvars
    \/ \E dic \in Dics : update(dic) /\ UNCHANGED qvars
    \/ \E key \in Keys, default \in Defaults : pop(key, default) /\ UNCHANGED qvars
    \/ pop_delete /\ UNCHANGED qvars
    \/ clear /\ UNCHANGED qvars
    \/ __enter__ /\ UNCHANGED qvars
    \/ \E exc \in BOOLEAN : __exit__(exc) /\ UNCHANGED qvars
    \/ close /\ UNCHANGED qvars
    \/ OtherAcquire /\ UNCHANGED qvars
    \/ OtherRelease /\ UNCHANGED qvars
    \/ Tick /\ UNCHANGED qvars

Spec == Init /\ [][Next]_vars

\* ------------------------------------- the executor's specifications

\* No store instance exists.
NoStore ==
    /\ now = 0
    /\ dbFile = FALSE
    /\ tableExists = FALSE
    /\ disk = <<>>
    /\ view = <<>>
    /\ in_transaction = FALSE
    /\ phase = "none"
    /\ read_only = FALSE
    /\ active_context = FALSE
    /\ inScope = FALSE
    /\ otherLock = FALSE
    /\ pc = Idle
    /\ last = Call("none", "ok", 0)
    /\ expect = NoExpect

\* The state after SqliteThreadWork.__init__: the connection is open, the
\* worker has started and waits on the empty queue.
QInit ==
    /\ NoStore
    /\ max_queue_size \in QueueSizes
    /\ queue = <<>>
    /\ results = <<>>
    /\ exit_set = FALSE
    /\ thread_running = TRUE
    /\ execute_count = 0
    /\ conn = [open |-> TRUE, committed |-> <<>>, pending |-> <<>>]
    /\ wpc = "get"
    /\ wcmd = NoCommand
    /\ prod = [p \in Producers |-> IdleProducer]
    /\ ret = NoReturn
    /\ closer = "idle"
    /\ issued = 0
    /\ enqueued = <<>>
    /\ executed = <<>>
    /\ uncommitted = 0
    /\ atClose = {}
    /\ sleepBound = MaxSleep

Worker == run_get \/ run_query \/ run_commit \/ run_exit \/ run_return

QNext ==
    \/ \E p \in Producers, query \in Statements, vals \in Outcomes :
           execute(p, query, vals)
    \/ \E p \in Producers : execute_put(p)
    \/ \E p \in Producers : execute_put_timeout(p)
    \/ \E p \in Producers : query_results(p)
    \/ close_exit_set
    \/ close_put
    \/ close_put_timeout
    \/ close_wait
    \/ run_get
    \/ run_query
    \/ run_commit
    \/ run_exit
    \/ run_return

QSpec == QInit /\ [][QNext]_vars

\* Every thread is scheduled fairly: the worker goes on while it has a next
\* step, a put happens when there is room, a blocked put times out, and a
\* poll loop or a waiting close sees what it waits for.
QFair ==
    /\ QSpec
    /\ WF_vars(Worker)
    /\ \A p \in Producers :
          /\ WF_vars(execute_put(p))
          /\ WF_vars(execute_put_timeout(p))
          /\ WF_vars(query_results(p))
    /\ WF_vars(close_put)
    /\ WF_vars(close_put_timeout)
    /\ WF_vars(close_wait)

\* The poll loop by itself: one producer's queries, followed through every
\* sleep, and the worker; nobody calls close.
PollInit ==
    \E q \in [max_queue_size : QueueSizes] :
        /\ NoStore
        /\ max_queue_size = q.max_queue_size
        /\ queue = <<>>
        /\ results = <<>>
        /\ exit_set = FALSE
        /\ thread_running = TRUE
        /\ execute_count = 0
        /\ conn = [open |-> TRUE, committed |-> <<>>, pending |-> <<>>]
        /\ wpc = "get"
        /\ wcmd = NoCommand
        /\ prod = [p \in Producers |-> IdleProducer]
        /\ ret = NoReturn
        /\ closer = "idle"
        /\ issued = 0
        /\ enqueued = <<>>
        /\ executed = <<>>
        /\ uncommitted = 0
        /\ atClose = {}
        /\ sleepBound = AnySleep

PollNext ==
    \/ \E vals \in {"ok", "sqlite3.Error"} : execute("p1", "select", vals)
    \/ execute_put("p1")
    \/ query_results("p1")
    \/ run_get
    \/ run_query
    \/ run_commit
    \/ run_exit

PollSpec == PollInit /\ [][PollNext]_vars


\* ------------------------------------------------------------------ claims

Writable == phase = "open" /\ ~read_only

UniqueKeys(rows) ==
    \A i, j \in 1..Len(rows) : rows[i].key = rows[j].key => i = j

\* C1: update(mapping) is all-or-nothing: a failed update leaves the store as
\* it was (none of the mapping's keys changed), a successful one leaves every
\* key k of the mapping with get(k) == mapping[k] (as JSON holds it).
C1_UpdateAllOrNothing ==
    [][(Writable /\ last'.op = "update") =>
         \A dic \in Dics :
            update(dic) =>
               IF last'.res = "ok"
               THEN \A i \in 1..Len(dic) :
                       GetIn(view', dic[i][1], None)
                          = json_loads(json_dumps(dic[i][2]))
               ELSE view' = view /\ disk' = disk]_vars

\* C2 as stated: after set(k, v) has returned, get(k) returns v until the next
\* call on k, and the namespace holds at most one entry per key, so count()
\* is the number of distinct keys.
C2_SetThenGet_Original ==
    (phase = "open" /\ pc.at = "idle") =>
       /\ \A k \in Keys : expect[k] # None => get(k, None) = expect[k]
       /\ UniqueKeys(view) /\ UniqueKeys(disk)
       /\ count = Cardinality(KeysOf(view))

\* C2 as amended: after set(k, v) has returned, get(k) returns what JSON
\* makes of v (v itself when v survives the JSON round trip; a tuple comes
\* back as a list) until the next call on k, and the namespace holds at most
\* one entry per key, so count() is the number of distinct keys.
C2_SetThenGet ==
    (phase = "open" /\ pc.at = "idle") =>
       /\ \A k \in Keys :
             expect[k] # None =>
                /\ get(k, None) = json_loads(json_dumps(expect[k]))
                /\ expect[k] = "[1, 2]" => get(k, None) = expect[k]
       /\ UniqueKeys(view) /\ UniqueKeys(disk)
       /\ count = Cardinality(KeysOf(view))

\* a set on a present key has replaced its entry, beside another key's
C2_Witness ==
    /\ phase = "open" /\ last.op = "set" /\ last.res = "ok"
    /\ expect["a"] = "[1, 2]" /\ get("a", None) = "[1, 2]"
    /\ count = 2
    /\ RowOf(view, "a").inserted < RowOf(view, "a").updated

\* C3: delete(k, ignoreMissing) leaves k absent and every other entry as it
\* was; it fails with KeyNotFound exactly when k was absent and ignoreMissing
\* is false, and returns normally when k was absent and ignoreMissing is true.
C3_DeleteContract ==
    [][\A k \in Keys, ign \in BOOLEAN :
         (Writable /\ ~Locked(Conn) /\ last'.op = "delete" /\ delete(k, ign)) =>
            /\ ~HasKey(view', k)
            /\ view' = Without(view, k)
            /\ (last'.res = "KeyError") <=> (~HasKey(view, k) /\ ~ign)
            /\ (~HasKey(view, k) /\ ign) => last'.res = "ok"]_vars

\* C4: pop(k) on a present key returns the stored value and leaves k absent,
\* the read and the delete inside one exclusive transaction; pop(k) on an
\* absent key raises KeyNotFound (no default) or returns the default, and
\* leaves the store's contents unchanged.
C4_PopContract ==
    [][/\ \A k \in Keys, d \in Defaults :
            (Writable /\ ~BeginFails(Conn, active_context)
                /\ last'.op = "pop" /\ pop(k, d)) =>
               IF HasKey(view, k)
               THEN /\ pc'.at = "pop" /\ pc'.key = k
                    /\ pc'.value = GetIn(view, k, None)
                    /\ in_transaction' /\ ~otherLock'
               ELSE /\ last'.res = (IF d = None THEN "KeyError" ELSE d)
                    /\ view' = view /\ disk' = disk
       /\ (Writable /\ pc.at = "pop" /\ pop_delete) =>
               /\ last'.res = pc.value
               /\ view' = Without(view, pc.key)
               /\ in_transaction /\ ~otherLock]_vars

\* C5: between entering and leaving a scoped transaction nothing is
\* committed; a normal exit commits all the mutations of the scope together
\* and a failing exit persists none of them, also when the begin issued on
\* entering failed.
C5_ScopeAtomic ==
    [][/\ (inScope /\ inScope') => disk' = disk
       /\ \A exc \in BOOLEAN :
            (last'.op = "__exit__" /\ __exit__(exc)) =>
               disk' = (IF exc THEN disk ELSE view)]_vars

\* C6: a store opened read-only never changes the namespace: opening it on
\* a missing table fails with StorageNotFound and creates no table, opening
\* it on an existing table sweeps nothing, and set, update, delete, pop and
\* clear fail with ReadOnlyViolation and leave the entries as they were.
C6_ReadOnlyNeverChanges ==
    [][/\ \A exp \in ExpiresChoices :
            (last'.op = "__init__" /\ __init__(TRUE, exp)) =>
               /\ disk' = disk /\ tableExists' = tableExists
               /\ (~tableExists /\ ~otherLock) =>
                     (phase' = "none" /\ last'.res = "WBStorageException")
       /\ (phase = "open" /\ read_only /\ last'.op # "__init__") =>
               /\ disk' = disk /\ view' = view /\ read_only'
               /\ tableExists' = tableExists
               /\ last'.op \in {"set", "update", "delete", "pop", "clear"}
                     => last'.res = "ReadOnly"]_vars

\* a read-only store over a table that holds an entry older than any expiry
\* has refused a set
C6_Witness ==
    /\ phase = "open" /\ read_only
    /\ last.op = "set" /\ last.res = "ReadOnly"
    /\ \E r \in Range(disk) : r.updated + 1 < now

\* C7: inserted_at is fixed by the first set of a key and kept by every later
\* set or update of it, updated_at is the time of the latest write,
\* inserted_at <= updated_at always, and age(k) is
\* (now - inserted_at, now - updated_at).
StampsOrdered ==
    /\ \A i \in 1..Len(view) :
          /\ view[i].inserted <= view[i].updated
          /\ age(view[i].key) = <<now - view[i].inserted, now - view[i].updated>>
    /\ \A i \in 1..Len(disk) : disk[i].inserted <= disk[i].updated

C7_Stamps ==
    [][/\ (view' # view \/ disk' # disk \/ now' # now) => StampsOrdered'
       /\ (last'.op = "set" /\ last'.res = "ok") =>
            \A k \in Keys, v \in PyValues :
               \/ /\ HasKey(view', k)
                  /\ RowOf(view', k).updated = now
                  /\ RowOf(view', k).inserted =
                        (IF HasKey(view, k) THEN RowOf(view, k).inserted ELSE now)
               \/ ~set(k, v)
       /\ last'.op \in {"set", "update"} =>
            /\ \A i \in 1..Len(view) :
                  /\ HasKey(view', view[i].key)
                  /\ RowOf(view', view[i].key).inserted = view[i].inserted
            /\ \A i \in 1..Len(view') :
                  \/ \E j \in 1..Len(view) : view[j] = view'[i]
                  \/ /\ view'[i].updated = now
                     /\ view'[i].inserted =
                           (IF HasKey(view, view'[i].key)
                            THEN RowOf(view, view'[i].key).inserted
                            ELSE now)]_vars

\* a set has overwritten an entry that was inserted earlier
C7_Witness ==
    /\ phase = "open" /\ last.op = "set" /\ last.res = "ok"
    /\ \E r \in Range(view) : r.inserted < r.updated /\ r.updated = now
    /\ \E k \in KeysOf(view) : age(k) = <<2, 0>>

\* C8: the expiry sweep runs once per store instance, when a writable store
\* with expires > 0 is initialized, and removes exactly the entries with
\* updated_at + ttl < now; no other call removes an entry because of its
\* age: an entry leaves the store only by a delete or pop of its key or by
\* the rollback of the transaction that wrote it.
C8_SweepOnlyAtInit ==
    [][/\ \A ro \in BOOLEAN, exp \in ExpiresChoices :
            (last'.op = "__init__" /\ phase' = "open" /\ __init__(ro, exp)) =>
               /\ disk' = (IF ~ro /\ exp > 0
                           THEN SelectSeq(disk, LAMBDA r : r.updated + exp >= now)
                           ELSE disk)
               /\ view' = disk'
       /\ (last'.op # "__init__" /\ (view' # view \/ disk' # disk)) =>
            /\ KeysOf(view) \ KeysOf(view') # {} =>
                  \/ \E k \in Keys, ign \in BOOLEAN :
                        /\ last'.op = "delete"
                        /\ KeysOf(view) \ KeysOf(view') = {k}
                        /\ delete(k, ign)
                  \/ /\ pc.at = "pop"
                     /\ KeysOf(view) \ KeysOf(view') = {pc.key}
                     /\ pop_delete
                  \/ in_transaction /\ ~in_transaction' /\ view' = disk
            /\ disk' # disk => disk' = view'
            /\ last'.op \in {"tick", "other"} => view' = view]_vars

\* a writable store has been opened with expires = 1 and the sweep removed
\* one entry and kept one
C8_Witness ==
    /\ phase = "open" /\ ~read_only
    /\ last.op = "__init__" /\ last.rowcount = 1 /\ Len(disk) = 1

\* C9: clear() on a writable store removes every entry: afterwards count()
\* is 0 and keys() is empty, and the removal is committed.
C9_ClearRemovesAll ==
    (Writable /\ ~inScope /\ last.op = "clear") =>
       (count = 0 /\ keys = <<>> /\ disk = <<>>)

\* C10: values() returns the decoded values in the order of items(), and
\* keys() the keys in the order of items().
C10_ValuesKeysMatchItems ==
    phase = "open" =>
       /\ values = [i \in 1..Len(items) |-> items[i][2]]
       /\ keys = [i \in 1..Len(items) |-> items[i][1]]

\* ------------------------------------------- claims about the executor

Tokens(cmds) == [i \in 1..Len(cmds) |-> cmds[i].token]

\* The position of a token in the order of the puts (0: never enqueued).
PutIndex(token) ==
    IF \E i \in 1..Len(enqueued) : enqueued[i].token = token
       THEN CHOOSE i \in 1..Len(enqueued) : enqueued[i].token = token
       ELSE 0

IsOkInsert(cmd) == cmd.query = "insert" /\ cmd.values = "ok"

\* The rows of the mutations that were enqueued before the command `token'
\* and succeed, in the order of their puts.
RowsBefore(token) ==
    Tokens(SelectSeq(SubSeq(enqueued, 1, PutIndex(token) - 1), IsOkInsert))

\* C11: the worker executes the commands in the order of their puts,
\* whichever producers put them (the executed commands are always a prefix
\* of the enqueued ones), and the rows a query returns are exactly the rows
\* of the mutations enqueued before it, so a producer's query sees that
\* producer's own earlier mutations.
C11_FifoOrder ==
    /\ Len(executed) <= Len(enqueued)
    /\ \A i \in 1..Len(executed) : executed[i].token = enqueued[i].token
    /\ ret.kind = "rows" => ret.rows = RowsBefore(ret.token)

\* Two producers' mutations were enqueued, and a query returned a row.
C11_Witness ==
    /\ Len(executed) = 2
    /\ ret.kind = "rows" /\ ret.rows # <<>>
    /\ executed[1].token = 2

\* C12: every command put on the queue is executed exactly once: no token
\* is executed twice, and once the worker has drained the queue and stopped
\* every enqueued command has been executed and every accepted mutation is
\* in the committed table.
C12_ExactlyOnce ==
    /\ \A i, j \in 1..Len(executed) :
          executed[i].token = executed[j].token => i = j
    /\ wpc = "stopped" =>
          /\ Len(executed) = Len(enqueued)
          /\ conn.committed = Tokens(SelectSeq(enqueued, IsOkInsert))

\* C13: close drains before closing.  The commands in the queue when close
\* was called are executed, and their rows committed, before the connection
\* is closed; nothing is executed on a closed connection; close returns
\* only after the worker has committed, closed and stopped; and, the threads
\* being scheduled fairly, a close that was called returns.
C13_CloseDrains ==
    /\ [](~conn.open /\ closer # "none" =>
            /\ atClose \subseteq {executed[i].token : i \in 1..Len(executed)}
            /\ \A i \in 1..Len(executed) :
                  (executed[i].token \in atClose /\ IsOkInsert(enqueued[i]))
                     => \E n \in 1..Len(conn.committed) :
                            conn.committed[n] = executed[i].token)
    /\ [][~conn.open => executed' = executed]_vars
    /\ [](closer = "returned" =>
            ~conn.open /\ ~thread_running /\ wpc = "stopped"
               /\ uncommitted = 0)
    /\ (closer = "put" ~> closer = "returned")

\* C14: an execute call that finds the shutdown flag set returns
\* ["Exit Called"] and leaves the queue and the connection alone, and once
\* the flag is set nothing but the sentinel is added to the queue.
C14_NoEnqueueAfterExit ==
    [][exit_set =>
         /\ \A p \in Producers, query \in Statements, vals \in Outcomes :
               execute(p, query, vals) =>
                  /\ ret' = Return(NoToken, Result("Exit Called", <<>>))
                  /\ queue' = queue /\ conn' = conn /\ prod' = prod
         /\ Len(queue') > Len(queue) => queue' = Append(queue, Sentinel)]_vars

\* C15: token correlation.  A query's execute call returns what the worker
\* stored when it executed the command of that call's token; only queries
\* get a registry entry, and an entry stays only until the call that polls
\* for it has taken it, so the registry is empty once every query call
\* has returned.
C15_TokenCorrelation ==
    /\ ret.kind \in {"rows", "error"} =>
          \E i \in 1..Len(executed) :
              /\ executed[i].token = ret.token
              /\ executed[i].res = Result(ret.kind, ret.rows)
              /\ enqueued[i].query = "select"
    /\ \A t \in DOMAIN results :
          /\ PutIndex(t) # 0 /\ enqueued[PutIndex(t)].query = "select"
          /\ \E p \in Producers :
                prod[p].at = "poll" /\ prod[p].cmd.token = t
    /\ (\A p \in Producers : prod[p].at # "poll") => results = <<>>

\* One query has returned its rows while the result of another producer's
\* query waits in the registry.
C15_Witness ==
    /\ ret.kind = "rows"
    /\ \E t \in DOMAIN results : t # ret.token /\ results[t].kind = "error"

\* C16: after construction only the worker uses the connection: a step
\* that changes the connection (an executed statement, a commit, the
\* close) is a step of run, never of execute, query_results or close.
C16_WorkerOwnsConn ==
    [][conn' # conn => Worker]_vars

\* close has returned: the connection was committed and closed on the way.
C16_Witness ==
    closer = "returned" /\ ~conn.open /\ conn.committed # <<>>

\* C17: a failing command does not stop the worker and raises in no
\* producer: a failing query's result is its error text, a failing mutation
\* leaves no result, and the worker goes on.
C17_FailuresContained ==
    /\ wpc # "dead"
    /\ \A i \in 1..Len(executed) :
          enqueued[i].values # "ok" =>
             executed[i].res = IF enqueued[i].query = "select"
                                  THEN Result("error", <<>>)
                                  ELSE Result("None", <<>>)
    /\ ret.kind \in {"rows", "error"} =>
          (ret.kind = "error") = (enqueued[PutIndex(ret.token)].values # "ok")

\* The commit rule of C18: after executing a command the worker commits
\* exactly when it finds the queue empty or has executed max_queue_size
\* commands since the last commit; none is uncommitted while the worker
\* waits on an empty queue; and the connection is closed with everything
\* committed.
CommitRule ==
    /\ [][(wpc = "commit" /\ wpc' # wpc) =>
             /\ uncommitted >= 1
             /\ (uncommitted' = 0 /\ conn' = ConnCommit(conn))
                   = (queue = <<>> \/ uncommitted = max_queue_size)
             /\ (uncommitted' # 0) => UNCHANGED <<conn, uncommitted>>]_vars
    /\ [](wpc = "get" /\ queue = <<>> =>
             uncommitted = 0 /\ conn.pending = <<>>)
    /\ [][conn.open /\ ~conn'.open =>
             conn'.committed = conn.committed \o conn.pending]_vars

\* C18 as stated: the commit rule, and the executed but uncommitted commands
\* are always fewer than max_queue_size.
C18_BatchedCommit_Original ==
    /\ CommitRule
    /\ [](uncommitted < max_queue_size)

\* C18: the commit rule, and the executed but uncommitted commands never
\* exceed max_queue_size and are fewer than it except between the execution
\* that reaches it and the commit that follows.
C18_BatchedCommit ==
    /\ CommitRule
    /\ [](uncommitted <= max_queue_size)
    /\ [](wpc # "commit" => uncommitted < max_queue_size)

\* A command was executed and left uncommitted, the worker went on to the
\* next one, and the connection holds an uncommitted row.
C18_Witness ==
    /\ max_queue_size = 2
    /\ wpc = "run_query" /\ uncommitted = 1
    /\ conn.pending # <<>>

\* C19: a query whose command was enqueued returns: its call does not stay
\* in the poll loop forever.
C19_QueryReturns ==
    \A p \in Producers : prod[p].at = "poll" ~> prod[p].at = "idle"

\* C20: the delay of the poll loop starts at 1 ms, doubles with every
\* unsuccessful poll, and no sleep is longer than 8000 ms.
C20_DelayCapped ==
    /\ [][\A p \in Producers :
            /\ (prod[p].at # "poll" /\ prod'[p].at = "poll") =>
                   prod'[p].delay = FirstDelay
            /\ (prod[p].at = "poll" /\ prod'[p].at = "poll"
                   /\ prod'[p] # prod[p]) =>
                   prod'[p].delay = 2 * prod[p].delay]_vars
    /\ [](\A p \in Producers : prod[p].at = "poll" => prod[p].delay <= 8000)

====
